---- MODULE Spec2Model ----
(***************************************************************************)
(* Model of api/calc.py: the interest engine                               *)
(* compute_interest_compounded_in_arrears and the calendar helpers it      *)
(* calls (previous_business_day, next_business_day,                        *)
(* shift_back_business_days).                                              *)
(*                                                                         *)
(* Dates are day numbers (integers); a timedelta's .days is a difference   *)
(* of day numbers.  A Decimal is a fixed-point integer with PrecDigits     *)
(* fractional digits: every context operation rounds half-even to that     *)
(* precision (the decimal module's default rounding), quantize() rounds    *)
(* half-up to the requested number of places.  Integer-valued Decimals     *)
(* that only ever act as divisors or day counts (N, dc) stay integers.     *)
(* Exceptions (all ValueError in the code) are named after the error kinds *)
(* of the specification, with the function that raised them.               *)
(***************************************************************************)
EXTENDS Integers, Sequences, FiniteSets, TLC

\* ---------------------------------------------------------------- bounds
\* Dates of the model are 0..MaxDate
MaxDate == 4
\* lookback_bdays ranges over 0..MaxLookback
MaxLookback == 2
\* fractional digits kept by the decimal context (34 significant in the code)
PrecDigits == 3
\* fractional digits kept by the SONIA re-quantization (18 in the code)
QuantDigits == 2

Dates == 0..MaxDate

\* ------------------------------------------------------- Decimal arithmetic
Scale == 10^PrecDigits

\* Decimal(i) for an integer i
Dec(i) == i * Scale

\* a percentage p as a Decimal fraction (p / 100)
Pct(p) == (p * Scale) \div 100

\* n / d (d > 0) rounded to the nearest integer, ties to even
RoundHalfEven(n, d) ==
  LET q == n \div d
      r == n - q * d
  IN  IF 2 * r < d THEN q
      ELSE IF 2 * r > d THEN q + 1
      ELSE IF q % 2 = 0 THEN q ELSE q + 1

\* n / d (d > 0) rounded to the nearest integer, ties away from zero
RoundHalfUp(n, d) ==
  LET q == n \div d
      r == n - q * d
  IN  IF 2 * r < d THEN q
      ELSE IF 2 * r > d THEN q + 1
      ELSE IF n >= 0 THEN q + 1 ELSE q

\* Decimal * Decimal
DMul(a, b) == RoundHalfEven(a * b, Scale)

\* Decimal / N for a positive integer-valued Decimal N
DDivInt(a, n) == RoundHalfEven(a, n)

\* C.quantize(Decimal('0.000000000000000001'), rounding=ROUND_HALF_UP)
quantize_factor(x) ==
  LET q == 10^(PrecDigits - QuantDigits) IN RoundHalfUp(x, q) * q

\* ------------------------------------------------------------ value shapes
None == [some |-> FALSE, val |-> 0]
Some(v) == [some |-> TRUE, val |-> v]

\* a normal return of a calendar function
Return(v) == [ok |-> TRUE, val |-> v, kind |-> "", fn |-> ""]
\* a raised ValueError: its kind and the function that raised it
Raise(k, f) == [ok |-> FALSE, val |-> 0, kind |-> k, fn |-> f]

NoError == [kind |-> "", fn |-> ""]

Min(a, b) == IF a <= b THEN a ELSE b

\* ---------------------------------------------------------- Calendar Index
RECURSIVE SortedSeq(_)
\* list(rates.keys()): the callers build rates sorted by date, so the keys
\* come out in increasing order
SortedSeq(S) ==
  IF S = {} THEN <<>>
  ELSE LET m == CHOOSE x \in S : \A y \in S : x <= y
       IN  <<m>> \o SortedSeq(S \ {m})

RECURSIVE previous_loop(_, _, _, _, _)
\* the while loop of previous_business_day; bd[i + 1] is bdays[i]
previous_loop(bd, d, lo, hi, ans) ==
  IF lo <= hi
  THEN LET mid == (lo + hi) \div 2
       IN  IF bd[mid + 1] <= d
           THEN previous_loop(bd, d, mid + 1, hi, Some(bd[mid + 1]))
           ELSE previous_loop(bd, d, lo, mid - 1, ans)
  ELSE ans

RECURSIVE previous_loop_strict(_, _, _, _, _)
\* previous_loop with the comparison < in place of <=
previous_loop_strict(bd, d, lo, hi, ans) ==
  IF lo <= hi
  THEN LET mid == (lo + hi) \div 2
       IN  IF bd[mid + 1] < d
           THEN previous_loop_strict(bd, d, mid + 1, hi, Some(bd[mid + 1]))
           ELSE previous_loop_strict(bd, d, lo, mid - 1, ans)
  ELSE ans

previous_business_day_strict(bd, d) ==
  LET ans == previous_loop_strict(bd, d, 0, Len(bd) - 1, None)
  IN  IF ans = None THEN Raise("NoBusinessDay", "previous_business_day")
      ELSE Return(ans.val)

previous_business_day(bd, d) ==
  LET ans == previous_loop(bd, d, 0, Len(bd) - 1, None)
  IN  IF ans = None THEN Raise("NoBusinessDay", "previous_business_day")
      ELSE Return(ans.val)

\* bdays_index = {bd: i for i, bd in enumerate(bdays)}
bdays_index(bd) ==
  [d \in {bd[i] : i \in 1..Len(bd)} |->
     (CHOOSE i \in 1..Len(bd) : bd[i] = d) - 1]

\* shift_back_business_days that stops at the first date of the series
shift_back_clamped(bd, d, n) ==
  IF d \notin DOMAIN bdays_index(bd)
  THEN Raise("NotABusinessDay", "shift_back_business_days")
  ELSE LET i == bdays_index(bd)[d] - n
       IN  IF i < 0 THEN Return(bd[1]) ELSE Return(bd[i + 1])

shift_back_business_days(bd, d, n) ==
  IF d \notin DOMAIN bdays_index(bd)
  THEN Raise("NotABusinessDay", "shift_back_business_days")
  ELSE LET i == bdays_index(bd)[d] - n
       IN  IF i < 0
           THEN Raise("InsufficientHistory", "shift_back_business_days")
           ELSE Return(bd[i + 1])

RECURSIVE next_loop(_, _, _, _, _)
\* the while loop of next_business_day
next_loop(bd, d, lo, hi, ans) ==
  IF lo <= hi
  THEN LET mid == (lo + hi) \div 2
       IN  IF bd[mid + 1] >= d
           THEN next_loop(bd, d, lo, mid - 1, Some(bd[mid + 1]))
           ELSE next_loop(bd, d, mid + 1, hi, ans)
  ELSE ans

RECURSIVE next_loop_strict(_, _, _, _, _)
\* next_loop with the comparison > in place of >=
next_loop_strict(bd, d, lo, hi, ans) ==
  IF lo <= hi
  THEN LET mid == (lo + hi) \div 2
       IN  IF bd[mid + 1] > d
           THEN next_loop_strict(bd, d, lo, mid - 1, Some(bd[mid + 1]))
           ELSE next_loop_strict(bd, d, mid + 1, hi, ans)
  ELSE ans

next_business_day_strict(bd, d) ==
  LET ans == next_loop_strict(bd, d, 0, Len(bd) - 1, None)
  IN  IF ans = None THEN Raise("NoBusinessDay", "next_business_day")
      ELSE Return(ans.val)

next_business_day(bd, d) ==
  LET ans == next_loop(bd, d, 0, Len(bd) - 1, None)
  IN  IF ans = None THEN Raise("NoBusinessDay", "next_business_day")
      ELSE Return(ans.val)

\* ------------------------------------------------------ Compounding Engine
VARIABLES
  req,            \* the arguments of compute_interest_compounded_in_arrears
  rates_up,       \* a second rate series: rates with one date's rate raised
  pc,             \* position in the function body
  err,            \* the ValueError that ended the call, if any
  bdays,          \* list(rates.keys())
  first_needed_bd,\* business day on/before start (an Optional)
  current_date,   \* loop variable
  C,              \* cumulative growth factor
  C_up,           \* the factor of the same call on rates_up
  run,            \* locals of the latest loop iteration
  daily_details,  \* the per-day trace (empty when not requested)
  iterations,     \* number of completed loop iterations
  result,         \* <<>> until the call returns, then <<the result>>
  interest_rfr_up \* interest_rfr of the same call on rates_up

vars == <<req, rates_up, pc, err, bdays, first_needed_bd, current_date, C,
          C_up, run, daily_details, iterations, result, interest_rfr_up>>

\* the three pre-loop checks without the lookback check
validate_no_lookback(lookback_bdays, start, end, bd) ==
  IF end <= start
  THEN Raise("InvalidRequest", "compute_interest_compounded_in_arrears")
  ELSE IF bd = <<>>
  THEN Raise("InvalidRequest", "compute_interest_compounded_in_arrears")
  ELSE Return(0)

\* the argument checks at the head of the function, in the code's order
validate(lookback_bdays, start, end, bd) ==
  IF lookback_bdays < 1
  THEN Raise("InvalidRequest", "compute_interest_compounded_in_arrears")
  ELSE IF end <= start
  THEN Raise("InvalidRequest", "compute_interest_compounded_in_arrears")
  ELSE IF bd = <<>>
  THEN Raise("InvalidRequest", "compute_interest_compounded_in_arrears")
  ELSE Return(0)

\* first_needed_bd and the shift that validates the history before start
pre_check(bd, start, lookback_bdays) ==
  LET p == previous_business_day(bd, start)
  IN  IF ~p.ok THEN p
      ELSE LET s == shift_back_business_days(bd, p.val, lookback_bdays)
           IN  IF ~s.ok THEN s ELSE p

NoRun == [business_day |-> 0, next_bd |-> 0, days_applied |-> 0, obs |-> 0,
          r |-> 0, period_factor |-> 0]

\* the run is not clipped by end
days_applied_unclipped(next_bd, cd, end) == next_bd - cd

\* days_applied = min((next_bd - current_date).days, (end - current_date).days)
days_applied_of(next_bd, cd, end) == Min(next_bd - cd, end - cd)

\* the bounding business day is looked up on/after current_date in both branches
bounding_lookup_same_day(bd, cd) ==
  IF \E i \in 1..Len(bd) : bd[i] = cd
  THEN [business_day |-> Return(cd), next_bd |-> next_business_day(bd, cd)]
  ELSE [business_day |-> previous_business_day(bd, cd),
        next_bd |-> next_business_day(bd, cd)]

\* the if/else that picks business_day and next_bd of an iteration
bounding_lookup(bd, cd) ==
  IF \E i \in 1..Len(bd) : bd[i] = cd
  THEN [business_day |-> Return(cd), next_bd |-> next_business_day(bd, cd + 1)]
  ELSE [business_day |-> previous_business_day(bd, cd),
        next_bd |-> next_business_day(bd, cd)]

\* the calendar part of one loop iteration: the first exception raised, or
\* business_day, next_bd, days_applied and obs
loop_lookup(bd, cd, end, lookback_bdays) ==
  LET b == bounding_lookup(bd, cd)
  IN  IF ~b.business_day.ok
      THEN [ok |-> FALSE, raised |-> b.business_day, at |-> NoRun]
      ELSE IF ~b.next_bd.ok
      THEN [ok |-> FALSE, raised |-> b.next_bd, at |-> NoRun]
      ELSE LET o == shift_back_business_days(bd, b.business_day.val,
                                             lookback_bdays)
           IN  IF ~o.ok
               THEN [ok |-> FALSE, raised |-> o, at |-> NoRun]
               ELSE [ok |-> TRUE, raised |-> Return(0),
                     at |-> [business_day |-> b.business_day.val,
                             next_bd |-> b.next_bd.val,
                             days_applied |->
                               days_applied_of(b.next_bd.val, cd, end),
                             obs |-> o.val, r |-> 0, period_factor |-> 0]]

\* the rate enters the factor with the wrong sign
period_factor_negated(r, days_applied, N) ==
  Dec(1) - DDivInt(r * days_applied, N)

\* period_factor = Decimal(1) + (r * Decimal(days_applied) / N)
period_factor_of(r, days_applied, N) ==
  Dec(1) + DDivInt(r * days_applied, N)

\* C *= period_factor, re-quantized when is_sonia
compound(c, pf, is_sonia) ==
  LET p == DMul(c, pf) IN IF is_sonia THEN quantize_factor(p) ELSE p

\* the trace without the first day of each run
trace_entries_skip_first(cd, end, at, c) ==
  LET days == {i \in 1..(at.days_applied - 1) : cd + i < end}
  IN  [k \in 1..Cardinality(days) |->
         [date |-> cd + k,
          business_day |-> at.business_day,
          observation_date |-> at.obs,
          daily_rate |-> at.r,
          cumulative_factor |-> c,
          days_applied |-> at.days_applied,
          is_business_day |-> (cd + k = at.business_day)]]

\* the DailyObservations one iteration appends: one per i in
\* range(days_applied) whose date is before end
trace_entries(cd, end, at, c) ==
  LET days == {i \in 0..(at.days_applied - 1) : cd + i < end}
  IN  [k \in 1..Cardinality(days) |->
         [date |-> cd + (k - 1),
          business_day |-> at.business_day,
          observation_date |-> at.obs,
          daily_rate |-> at.r,
          cumulative_factor |-> c,
          days_applied |-> at.days_applied,
          is_business_day |-> (cd + (k - 1) = at.business_day)]]

\* -------------------------------------------------------- Accrual Splitter
\* the split whose in-between branch counts the change date in neither segment
margin_split_off_by_one(start, end, dc, margin_pa, margin_change_date, margin_pa_after) ==
  LET m2 == IF margin_pa_after.some THEN margin_pa_after.val ELSE margin_pa
      eff == margin_change_date.val
  IN  IF ~margin_change_date.some
      THEN [pre_days |-> dc, post_days |-> 0, m1 |-> margin_pa, m2 |-> m2]
      ELSE IF eff <= start
      THEN [pre_days |-> 0, post_days |-> dc, m1 |-> m2, m2 |-> m2]
      ELSE IF eff >= end
      THEN [pre_days |-> dc, post_days |-> 0, m1 |-> margin_pa,
            m2 |-> margin_pa]
      ELSE [pre_days |-> eff - start, post_days |-> end - eff - 1,
            m1 |-> margin_pa, m2 |-> m2]

\* the split with the bodies of the two boundary branches exchanged
margin_split_swapped(start, end, dc, margin_pa, margin_change_date, margin_pa_after) ==
  LET m2 == IF margin_pa_after.some THEN margin_pa_after.val ELSE margin_pa
      eff == margin_change_date.val
  IN  IF ~margin_change_date.some
      THEN [pre_days |-> dc, post_days |-> 0, m1 |-> margin_pa, m2 |-> m2]
      ELSE IF eff <= start
      THEN [pre_days |-> dc, post_days |-> 0, m1 |-> margin_pa,
            m2 |-> margin_pa]
      ELSE IF eff >= end
      THEN [pre_days |-> 0, post_days |-> dc, m1 |-> m2, m2 |-> m2]
      ELSE [pre_days |-> eff - start, post_days |-> end - eff,
            m1 |-> margin_pa, m2 |-> m2]

\* pre_days, post_days, m1 and m2 around the optional margin-change date
margin_split(start, end, dc, margin_pa, margin_change_date, margin_pa_after) ==
  LET m2 == IF margin_pa_after.some THEN margin_pa_after.val ELSE margin_pa
      eff == margin_change_date.val
  IN  IF ~margin_change_date.some
      THEN [pre_days |-> dc, post_days |-> 0, m1 |-> margin_pa, m2 |-> m2]
      ELSE IF eff <= start
      THEN [pre_days |-> 0, post_days |-> dc, m1 |-> m2, m2 |-> m2]
      ELSE IF eff >= end
      THEN [pre_days |-> dc, post_days |-> 0, m1 |-> margin_pa,
            m2 |-> margin_pa]
      ELSE [pre_days |-> eff - start, post_days |-> end - eff,
            m1 |-> margin_pa, m2 |-> m2]

\* -------------------------------------------------------- Result Assembler
\* interest_rfr = (C - Decimal(1)) * principal
interest_rfr_of(c, principal) == DMul(c - Dec(1), principal)

\* the result dictionary: the day counts and, for each money figure, the
\* Decimal it is taken from (the code reports float(quantize_money(...)) of
\* it); the two annualized rates of lines 273-275 enter no property and are
\* left out
assemble(c) ==
  LET N == req.basis_days
      dc == req.end - req.start
      dcf_total == DDivInt(Dec(dc), N)
      sp == margin_split(req.start, req.end, dc, req.margin_pa,
                         req.margin_change_date, req.margin_pa_after)
      dcf_pre == DDivInt(Dec(sp.pre_days), N)
      dcf_post == DDivInt(Dec(sp.post_days), N)
      interest_rfr == interest_rfr_of(c, req.principal)
      interest_margin ==
        DMul(DMul(sp.m1, dcf_pre) + DMul(sp.m2, dcf_post), req.principal)
      interest_cas == DMul(DMul(req.cas_pa, dcf_total), req.principal)
  IN  [interest_total |-> interest_rfr + interest_margin + interest_cas,
       interest_rfr |-> interest_rfr,
       interest_margin |-> interest_margin,
       interest_cas |-> interest_cas,
       compounded_factor |-> c,
       dc |-> dc,
       N |-> N,
       pre |-> [days |-> sp.pre_days, margin_pa |-> sp.m1],
       post |-> [days |-> sp.post_days, margin_pa |-> sp.m2,
                 effective_date |-> req.margin_change_date],
       has_daily_details |-> req.return_daily_details,
       daily_details |-> daily_details]

\* ------------------------------------------------------------- requests
\* rate of a series date in the calendar and splitter families: 10%, 20%, ...
SeriesRate(d) == Pct(10 * (d + 1))

\* rates of the monotonicity family: -80000%, -100%, 200% per annum
MonoRates == {Dec(0 - 800), Dec(0 - 1), Dec(2)}

\* the series dates of the monotonicity family: daily, one date missing
MonoDates == {0, 1, 2, 4}

\* calendar family: every series over Dates, every period, every lookback
ReqCalendar ==
  {[principal |-> Dec(100), start |-> s, end |-> e, lookback_bdays |-> n,
    rates |-> [d \in S |-> SeriesRate(d)], basis_days |-> 365,
    margin_pa |-> Pct(50), cas_pa |-> Pct(10), margin_change_date |-> None,
    margin_pa_after |-> None, is_sonia |-> TRUE,
    return_daily_details |-> t] :
   S \in SUBSET Dates, s \in Dates, e \in Dates, n \in 0..MaxLookback,
   t \in BOOLEAN}

\* splitter family: a full daily series, every margin-change date and margin
ReqSplit ==
  {[principal |-> Dec(100), start |-> s, end |-> e, lookback_bdays |-> 1,
    rates |-> [d \in Dates |-> SeriesRate(d)], basis_days |-> b.N,
    margin_pa |-> m, cas_pa |-> Pct(10), margin_change_date |-> mcd,
    margin_pa_after |-> ma, is_sonia |-> b.sonia,
    return_daily_details |-> FALSE] :
   s \in 1..MaxDate, e \in 1..MaxDate,
   b \in {[N |-> 365, sonia |-> TRUE], [N |-> 360, sonia |-> FALSE]},
   m \in {Pct(50), Pct(150)},
   mcd \in {None} \cup {Some(d) : d \in Dates},
   ma \in {None, Some(Pct(100))}}

\* monotonicity family: every assignment of MonoRates to MonoDates
ReqMono ==
  {[principal |-> p, start |-> 1, end |-> e, lookback_bdays |-> 1,
    rates |-> f, basis_days |-> b.N,
    margin_pa |-> Pct(50), cas_pa |-> Pct(10), margin_change_date |-> None,
    margin_pa_after |-> None, is_sonia |-> b.sonia,
    return_daily_details |-> FALSE] :
   p \in {Dec(0 - 1), Dec(2)}, e \in {3, 4},
   f \in [MonoDates -> MonoRates],
   b \in {[N |-> 365, sonia |-> TRUE], [N |-> 360, sonia |-> FALSE]}}

\* g has the dates of f and differs from f in one date's rate, which is larger
RaisedAtOneDate(f, g) ==
  /\ DOMAIN g = DOMAIN f
  /\ \E d \in DOMAIN f :
       /\ g[d] > f[d]
       /\ \A x \in DOMAIN f \ {d} : g[x] = f[x]

InitCall ==
  /\ pc = "validate"
  /\ err = NoError
  /\ bdays = <<>>
  /\ first_needed_bd = None
  /\ current_date = 0
  /\ C = Dec(1)
  /\ C_up = Dec(1)
  /\ run = NoRun
  /\ daily_details = <<>>
  /\ iterations = 0
  /\ result = <<>>
  /\ interest_rfr_up = 0

Init ==
  /\ InitCall
  /\ \/ /\ req \in ReqCalendar \cup ReqSplit
        /\ rates_up = req.rates
     \/ /\ req \in ReqMono
        /\ rates_up \in [MonoDates -> MonoRates]
        /\ RaisedAtOneDate(req.rates, rates_up)

\* ---------------------------------------------------------------- actions
\* lines 191-197: an argument check raises
ValidateRaise ==
  /\ pc = "validate"
  /\ LET v == validate(req.lookback_bdays, req.start, req.end,
                       SortedSeq(DOMAIN req.rates))
     IN  /\ ~v.ok
         /\ err' = [kind |-> v.kind, fn |-> v.fn]
  /\ pc' = "raised"
  /\ UNCHANGED <<req, rates_up, bdays, first_needed_bd, current_date, C, C_up,
                 run, daily_details, iterations, result, interest_rfr_up>>

\* lines 191-198: the arguments pass; bdays is built
ValidateOk ==
  /\ pc = "validate"
  /\ validate(req.lookback_bdays, req.start, req.end,
              SortedSeq(DOMAIN req.rates)).ok
  /\ bdays' = SortedSeq(DOMAIN req.rates)
  /\ pc' = "pre_check"
  /\ UNCHANGED <<req, rates_up, err, first_needed_bd, current_date, C, C_up,
                 run, daily_details, iterations, result, interest_rfr_up>>

\* lines 200-201: the pre-check raises
PreCheckRaise ==
  /\ pc = "pre_check"
  /\ LET p == pre_check(bdays, req.start, req.lookback_bdays)
     IN  /\ ~p.ok
         /\ err' = [kind |-> p.kind, fn |-> p.fn]
  /\ pc' = "raised"
  /\ UNCHANGED <<req, rates_up, bdays, first_needed_bd, current_date, C, C_up,
                 run, daily_details, iterations, result, interest_rfr_up>>

\* lines 200-208: the pre-check passes; C and current_date are initialised
PreCheckOk ==
  /\ pc = "pre_check"
  /\ LET p == pre_check(bdays, req.start, req.lookback_bdays)
     IN  /\ p.ok
         /\ first_needed_bd' = Some(p.val)
  /\ C' = Dec(1)
  /\ C_up' = Dec(1)
  /\ daily_details' = <<>>
  /\ current_date' = req.start
  /\ pc' = "loop"
  /\ UNCHANGED <<req, rates_up, err, bdays, run, iterations, result,
                 interest_rfr_up>>

\* lines 209-218: a calendar lookup of the iteration raises
LoopRaise ==
  /\ pc = "loop"
  /\ current_date < req.end
  /\ LET l == loop_lookup(bdays, current_date, req.end, req.lookback_bdays)
     IN  /\ ~l.ok
         /\ err' = [kind |-> l.raised.kind, fn |-> l.raised.fn]
  /\ pc' = "raised"
  /\ UNCHANGED <<req, rates_up, bdays, first_needed_bd, current_date, C, C_up,
                 run, daily_details, iterations, result, interest_rfr_up>>

\* lines 209-240: one iteration of the compounding loop
LoopIterate ==
  /\ pc = "loop"
  /\ current_date < req.end
  /\ LET l == loop_lookup(bdays, current_date, req.end, req.lookback_bdays)
         N == req.basis_days
         r == req.rates[l.at.obs]
         pf == period_factor_of(r, l.at.days_applied, N)
         c == compound(C, pf, req.is_sonia)
         at == [l.at EXCEPT !.r = r, !.period_factor = pf]
     IN  /\ l.ok
         /\ run' = at
         /\ C' = c
         /\ C_up' = compound(C_up,
                       period_factor_of(rates_up[l.at.obs],
                                        l.at.days_applied, N),
                       req.is_sonia)
         /\ daily_details' =
              IF req.return_daily_details
              THEN daily_details \o trace_entries(current_date, req.end, at, c)
              ELSE daily_details
         /\ current_date' = current_date + l.at.days_applied
  /\ iterations' = iterations + 1
  /\ UNCHANGED <<req, rates_up, pc, err, bdays, first_needed_bd, result,
                 interest_rfr_up>>

\* lines 242-296: the loop has ended; the result is assembled and returned
Assemble ==
  /\ pc = "loop"
  /\ ~(current_date < req.end)
  /\ result' = <<assemble(C)>>
  /\ interest_rfr_up' = interest_rfr_of(C_up, req.principal)
  /\ pc' = "returned"
  /\ UNCHANGED <<req, rates_up, err, bdays, first_needed_bd, current_date, C,
                 C_up, run, daily_details, iterations>>

Next ==
  \/ ValidateRaise
  \/ ValidateOk
  \/ PreCheckRaise
  \/ PreCheckOk
  \/ LoopRaise
  \/ LoopIterate
  \/ Assemble

Spec == Init /\ [][Next]_vars

\* ------------------------------------------------------------- properties
\* reference notions the properties are stated with
DatesOf(bd) == {bd[i] : i \in 1..Len(bd)}
MaxOf(S) == CHOOSE x \in S : \A y \in S : y <= x
MinOf(S) == CHOOSE x \in S : \A y \in S : x <= y
OnOrBefore(bd, d) == {b \in DatesOf(bd) : b <= d}
OnOrAfter(bd, d) == {b \in DatesOf(bd) : b >= d}
After(bd, d) == {b \in DatesOf(bd) : b > d}
\* position (from 1) of a series date
PosOf(bd, d) == CHOOSE i \in 1..Len(bd) : bd[i] = d
\* the request breaks one of the three argument rules
Invalid ==
  \/ req.lookback_bdays < 1
  \/ req.end <= req.start
  \/ DOMAIN req.rates = {}
\* the pre-check has succeeded
PreChecked == first_needed_bd.some

\* C1: in every returned result pre.days + post.days = dc = end - start and
\* both segment day counts are >= 0, whatever the margin-change date
C1_SplitSumsToDc ==
  pc = "returned" =>
    LET res == result[1]
    IN  /\ res.dc = req.end - req.start
        /\ res.pre.days + res.post.days = res.dc
        /\ res.pre.days >= 0
        /\ res.post.days >= 0

\* a result whose margin-change date lies strictly inside the period
C1_Witness ==
  /\ pc = "returned"
  /\ req.margin_change_date.some
  /\ req.start < req.margin_change_date.val
  /\ req.margin_change_date.val < req.end
  /\ result[1].pre.days > 0
  /\ result[1].post.days > 0

\* C2: a change date <= start gives pre.days = 0, post.days = dc and the
\* post-change margin in both segments; a change date >= end gives
\* pre.days = dc, post.days = 0 and the pre-change margin in both segments;
\* margin interest is then that margin * dc / basis * principal
C2_BoundaryPolicy ==
  (pc = "returned" /\ req.margin_change_date.some) =>
    LET res == result[1]
        eff == req.margin_change_date.val
        dc == req.end - req.start
        after == IF req.margin_pa_after.some THEN req.margin_pa_after.val
                 ELSE req.margin_pa
        single(m) == DMul(DMul(m, DDivInt(Dec(dc), req.basis_days)),
                          req.principal)
    IN  /\ eff <= req.start =>
             /\ res.pre.days = 0
             /\ res.post.days = dc
             /\ res.pre.margin_pa = after
             /\ res.post.margin_pa = after
             /\ res.interest_margin = single(after)
        /\ eff >= req.end =>
             /\ res.pre.days = dc
             /\ res.post.days = 0
             /\ res.pre.margin_pa = req.margin_pa
             /\ res.post.margin_pa = req.margin_pa
             /\ res.interest_margin = single(req.margin_pa)

\* a result for a change date equal to start with a distinct post margin
C2_Witness ==
  /\ pc = "returned"
  /\ req.margin_change_date = Some(req.start)
  /\ req.margin_pa_after.some
  /\ req.margin_pa_after.val # req.margin_pa
  /\ result[1].interest_margin > 0
  /\ result[1].post.days >= 2

\* C3: shift_back_business_days of the series date at position p by n is the
\* date at position p - n, and raises InsufficientHistory when p - n is
\* before the first position; a call whose business day on/before start has
\* fewer than lookback predecessors ends in InsufficientHistory, no result
C3_ShiftBackNeverClamps ==
  /\ \A p \in 1..Len(bdays), n \in 0..(MaxLookback + 1) :
       LET sh == shift_back_business_days(bdays, bdays[p], n)
       IN  IF p - n >= 1
           THEN sh = Return(bdays[p - n])
           ELSE ~sh.ok /\ sh.kind = "InsufficientHistory"
  /\ ( /\ pc \notin {"validate", "pre_check"}
       /\ ~Invalid
       /\ OnOrBefore(bdays, req.start) # {}
       /\ PosOf(bdays, MaxOf(OnOrBefore(bdays, req.start))) - 1
            < req.lookback_bdays )
     => /\ pc = "raised"
        /\ err = [kind |-> "InsufficientHistory",
                  fn |-> "shift_back_business_days"]
        /\ result = <<>>

\* the pre-check raised although the business day has a predecessor
C3_Witness ==
  /\ pc = "raised"
  /\ err.kind = "InsufficientHistory"
  /\ req.lookback_bdays = 2
  /\ PosOf(bdays, MaxOf(OnOrBefore(bdays, req.start))) = 2

\* C4: on the series of the call, previous_business_day(d) is the maximum
\* series date <= d and raises NoBusinessDay exactly when there is none;
\* next_business_day(d) is the minimum series date >= d and raises
\* NoBusinessDay exactly when there is none
C4_TightestBound ==
  /\ \A d \in (0 - 1)..(MaxDate + 1) :
       bdays # <<>> =>
         LET p == previous_business_day(bdays, d)
             n == next_business_day(bdays, d)
         IN  /\ IF OnOrBefore(bdays, d) = {}
                THEN ~p.ok /\ p.kind = "NoBusinessDay"
                ELSE p = Return(MaxOf(OnOrBefore(bdays, d)))
             /\ IF OnOrAfter(bdays, d) = {}
                THEN ~n.ok /\ n.kind = "NoBusinessDay"
                ELSE n = Return(MinOf(OnOrAfter(bdays, d)))
  /\ PreChecked =>
       first_needed_bd.val = MaxOf(OnOrBefore(bdays, req.start))
  /\ iterations > 0 =>
       run.next_bd = MinOf(After(bdays, current_date - run.days_applied))

\* both searches have run on a series of three dates or more, the first
\* one for a date that is not itself in the series
C4_Witness ==
  /\ iterations > 0
  /\ Len(bdays) >= 3
  /\ first_needed_bd.val < req.start
  /\ first_needed_bd.val > bdays[1]
  /\ run.next_bd < bdays[Len(bdays)]

\* C5 as stated: raising one date's rate never lowers (C - 1) * principal
C5_MonotoneAsStated ==
  (pc = "returned" /\ RaisedAtOneDate(req.rates, rates_up)) =>
    interest_rfr_up >= result[1].interest_rfr

\* C5, amended: for a principal >= 0 and a series none of whose rates is
\* below -basis / (end - start), raising one date's rate never lowers
\* (C - 1) * principal
C5_MonotoneAmended ==
  ( /\ pc = "returned"
    /\ RaisedAtOneDate(req.rates, rates_up)
    /\ req.principal >= 0
    /\ \A d \in DOMAIN req.rates :
         req.rates[d] * (req.end - req.start) >= 0 - Dec(req.basis_days) )
  => interest_rfr_up >= result[1].interest_rfr

\* a negative rate inside the amended range was raised and the interest grew
C5_Witness ==
  /\ pc = "returned"
  /\ RaisedAtOneDate(req.rates, rates_up)
  /\ req.principal > 0
  /\ \A d \in DOMAIN req.rates :
       req.rates[d] * (req.end - req.start) >= 0 - Dec(req.basis_days)
  /\ \E d \in DOMAIN req.rates : req.rates[d] < 0
  /\ iterations >= 2
  /\ interest_rfr_up > result[1].interest_rfr

\* C6: a request with lookback < 1, end <= start or an empty series goes
\* from the argument checks straight to an InvalidRequest error: no lookup,
\* no compounding step, no trace entry and no result
C6_InvalidRejected ==
  Invalid =>
    /\ pc \in {"validate", "raised"}
    /\ pc = "raised" =>
         err = [kind |-> "InvalidRequest",
                fn |-> "compute_interest_compounded_in_arrears"]
    /\ result = <<>>
    /\ first_needed_bd = None
    /\ iterations = 0
    /\ run = NoRun
    /\ C = Dec(1)
    /\ daily_details = <<>>

\* a lookback of 0 was rejected on a request that is otherwise computable
C6_Witness ==
  /\ pc = "raised"
  /\ err.kind = "InvalidRequest"
  /\ req.lookback_bdays = 0
  /\ req.end > req.start
  /\ OnOrBefore(SortedSeq(DOMAIN req.rates), req.start) # {}
  /\ OnOrAfter(SortedSeq(DOMAIN req.rates), req.end) # {}

\* C7: the run that started at a date cd has as business day the latest
\* series date <= cd, observes the series date lookback positions before
\* it, and covers min(days to the earliest series date > cd, days to end);
\* every traced day carries the rate observed lookback positions before the
\* latest business day <= that day, and no run crosses a business day or end
C7_RunRule ==
  /\ iterations > 0 =>
       LET cd == current_date - run.days_applied
           b == MaxOf(OnOrBefore(bdays, cd))
       IN  /\ run.business_day = b
           /\ run.obs = bdays[PosOf(bdays, b) - req.lookback_bdays]
           /\ run.r = req.rates[run.obs]
           /\ run.days_applied =
                Min(MinOf(After(bdays, cd)) - cd, req.end - cd)
           /\ current_date <= req.end
           /\ \A x \in (cd + 1)..(current_date - 1) : x \notin DatesOf(bdays)
  /\ \A k \in 1..Len(daily_details) :
       LET e == daily_details[k]
           b == MaxOf(OnOrBefore(bdays, e.date))
       IN  /\ e.business_day = b
           /\ e.observation_date =
                bdays[PosOf(bdays, b) - req.lookback_bdays]
           /\ e.daily_rate = req.rates[e.observation_date]

\* a traced call whose second or later run was cut by end, not by the next
\* business day
C7_Witness ==
  /\ iterations >= 2
  /\ Len(daily_details) >= 2
  /\ run.days_applied >= 1
  /\ run.next_bd > req.end
  /\ current_date = req.end

\* C8: every iteration applies at least one day and moves current_date
\* forward, never past end, so that current_date >= start + iterations and
\* there are at most end - start iterations; a returned call left the loop
\* at current_date = end
C8_LoopTerminates ==
  /\ [](/\ iterations > 0 => run.days_applied >= 1
        /\ pc \in {"loop", "returned"} =>
             /\ current_date <= req.end
             /\ iterations <= req.end - req.start
        /\ pc = "loop" => current_date >= req.start + iterations
        /\ pc = "returned" => current_date = req.end)
  /\ [][iterations' # iterations =>
          /\ iterations' = iterations + 1
          /\ current_date' > current_date
          /\ req.end - current_date' < req.end - current_date]_vars

\* a call returned after one iteration per day of a three-day period
C8_Witness ==
  /\ pc = "returned"
  /\ req.end - req.start >= 3
  /\ iterations = req.end - req.start

\* C9: the trace of a returned call that asked for it has one entry per day
\* of [start, end): end - start entries dated start, start + 1, ..., and an
\* entry is flagged is_business_day exactly when its date is the applicable
\* business day of its run
C9_TraceOnePerDay ==
  (pc = "returned" /\ req.return_daily_details) =>
    /\ result[1].has_daily_details
    /\ result[1].daily_details = daily_details
    /\ Len(daily_details) = req.end - req.start
    /\ \A k \in 1..Len(daily_details) :
         LET e == daily_details[k]
         IN  /\ e.date = req.start + (k - 1)
             /\ e.is_business_day
                  = (e.date = MaxOf(OnOrBefore(bdays, e.date)))

\* a returned trace of three days or more with flagged and unflagged days
C9_Witness ==
  /\ pc = "returned"
  /\ req.return_daily_details
  /\ Len(daily_details) >= 3
  /\ \E k \in 1..Len(daily_details) : daily_details[k].is_business_day
  /\ \E k \in 1..Len(daily_details) : ~daily_details[k].is_business_day

\* C10: after a successful pre-check the call can only fail with the
\* NoBusinessDay of next_business_day, and it does so only when the series
\* has no date >= end; when the series has a date >= end no iteration
\* raises, and a call returns only when the series has such a date
C10_OnlyNextLookupFails ==
  /\ (pc = "raised" /\ PreChecked) =>
       /\ err = [kind |-> "NoBusinessDay", fn |-> "next_business_day"]
       /\ OnOrAfter(bdays, req.end) = {}
  /\ pc = "returned" => OnOrAfter(bdays, req.end) # {}
  /\ (pc = "loop" /\ current_date < req.end) =>
       (OnOrAfter(bdays, req.end) # {}
          => loop_lookup(bdays, current_date, req.end, req.lookback_bdays).ok)

\* the loop failed after a completed iteration
C10_Witness ==
  /\ pc = "raised"
  /\ PreChecked
  /\ iterations >= 1

====
